---- MODULE Spec2Model ----
(***************************************************************************)
(* Model of script.py: the Direct Text-to-Website Generator.               *)
(*                                                                         *)
(* Texts are sequences of tokens.  A token stands for a piece of text that *)
(* the code treats as a unit: the markdown fence, the newline, a blank,    *)
(* the client-directive literal, a client feature name, any other text.    *)
(***************************************************************************)
EXTENDS Integers, Sequences, FiniteSets, TLC

VARIABLES
    pc,              \* position of the run inside main()
    step,            \* position inside generate_website(): index into Pipeline
    success,         \* what generate_website() returned: "none" until it has
    args,            \* the command line and environment of the current run
    fs,              \* the filesystem: target directory name -> tree
    fs0,             \* the filesystem as it was when the current run started
    ops,             \* the side effects the current run has performed, in order
    generated_code,  \* the Generated Module Text held in memory
    response,        \* the outcome of the completion call
    printed,         \* what the current run has printed or logged for the user
    failedAt,        \* the step of the pipeline that failed, "none" if none has
    run,             \* "first" run of the program, or the "second" one after it
    prev,            \* inputs and resulting tree of the last successful run
    cleaned,         \* trim-and-fence-strip of the response, applied once
    recleaned        \* trim-and-fence-strip applied to `cleaned`

vars == <<pc, step, success, args, fs, fs0, ops, generated_code, response, printed,
          failedAt, run, prev, cleaned, recleaned>>

(***************************************************************************)
(* Bounds.                                                                 *)
(***************************************************************************)
MaxLen == 5
MaxNameLen == 3

\* Python's None, and an unset command-line flag or environment variable
None == "<None>"

(***************************************************************************)
(* Text tokens.                                                            *)
(***************************************************************************)
\* the markdown fence, three backquotes (script.py lines 113-117)
FENCE == "<fence>"
NL == "\n"
SP == " "
ClientDirective == "'use client'"
SEMI == ";"

Whitespace == {NL, SP}

\* client_features, script.py line 122
client_features ==
    {"useState", "useEffect", "onClick", "onChange", "onSubmit", "onFocus", "onBlur"}

\* the tokens a completion text is drawn from
Alphabet == {FENCE, NL, SP, ClientDirective, "useState", "x"}

RECURSIVE SeqsUpTo(_, _)
SeqsUpTo(S, n) ==
    IF n = 0 THEN {<<>>}
    ELSE LET shorter == SeqsUpTo(S, n - 1)
         IN  shorter \cup {Append(s, c) : s \in {t \in shorter : Len(t) = n - 1}, c \in S}

Texts == SeqsUpTo(Alphabet, MaxLen)

(***************************************************************************)
(* str methods used by generate_website_code.                              *)
(***************************************************************************)
RECURSIVE LStrip(_)
LStrip(s) ==
    IF s # <<>> /\ Head(s) \in Whitespace THEN LStrip(Tail(s)) ELSE s

RECURSIVE RStrip(_)
RStrip(s) ==
    IF s # <<>> /\ s[Len(s)] \in Whitespace
    THEN RStrip(SubSeq(s, 1, Len(s) - 1))
    ELSE s

\* str.strip()
Strip(s) == RStrip(LStrip(s))

\* str.startswith(token)
StartsWith(s, tok) == s # <<>> /\ s[1] = tok

\* str.split('\n'): always at least one line
RECURSIVE Split(_)
Split(s) ==
    IF \A i \in 1..Len(s) : s[i] # NL
    THEN <<s>>
    ELSE LET k == CHOOSE i \in 1..Len(s) :
                      s[i] = NL /\ \A j \in 1..(i - 1) : s[j] # NL
         IN  <<SubSeq(s, 1, k - 1)>> \o Split(SubSeq(s, k + 1, Len(s)))

\* '\n'.join(lines)
RECURSIVE Join(_)
Join(lines) ==
    IF lines = <<>> THEN <<>>
    ELSE IF Len(lines) = 1 THEN lines[1]
    ELSE lines[1] \o <<NL>> \o Join(Tail(lines))

\* feature in generated_code, for some feature of `features`
Contains(s, features) == \E i \in 1..Len(s) : s[i] \in features

\* script.py lines 113-119: clean up markdown formatting if present
StripFences(code) ==
    IF StartsWith(code, FENCE)
    THEN LET lines == Split(code)
             l1 == IF StartsWith(lines[1], FENCE) THEN Tail(lines) ELSE lines
             l2 == IF l1 # <<>> /\ StartsWith(l1[Len(l1)], FENCE)
                   THEN SubSeq(l1, 1, Len(l1) - 1)
                   ELSE l1
         IN  Join(l2)
    ELSE code

\* script.py lines 110-119: trim, then strip the fences
CleanUp(content) == StripFences(Strip(content))

\* the text prepended at script.py line 124
DirectivePrefix == <<ClientDirective, SEMI, NL, NL>>

\* script.py lines 122-124, with `in` where the code has startswith
AddDirectiveUnlessContained(code) ==
    IF Contains(code, client_features) /\ ~Contains(code, {ClientDirective})
    THEN DirectivePrefix \o code
    ELSE code

\* script.py lines 122-124
AddDirective(code) ==
    IF Contains(code, client_features) /\ ~StartsWith(code, ClientDirective)
    THEN DirectivePrefix \o code
    ELSE code

\* script.py lines 110-126: the whole post-processing of a completion text
PostProcess(content) == AddDirective(CleanUp(content))

(***************************************************************************)
(* main(): command line, credential, project name.                         *)
(***************************************************************************)
\* the values of --api-key and of OPENAI_API_KEY
FlagValues == {None, "sk-key"}
EnvValues == {None, "", "sk-key"}

\* the values --input is drawn from: literal text, or the path of a file
Inputs == {[isFile |-> FALSE, text |-> "a landing page"],
           [isFile |-> TRUE,  text |-> "a blog"]}

\* the values --project-name is drawn from, as sequences of characters
ProjectNames == {<<"M", "y", " ", "S">>, <<"m", "y", "_", "s">>, <<"c">>}

ArgSets == [flag : FlagValues, env : EnvValues, name : ProjectNames, input : Inputs]

\* bool(x) of a str or None
Truthy(x) == x # None /\ x # ""

\* script.py line 757: args.api_key or os.getenv("OPENAI_API_KEY")
ApiKey(flag, env) == IF Truthy(flag) THEN flag ELSE env

\* script.py lines 758-760, without the return
AfterCredentialCheckNoReturn(api_key) == "read_input"

\* script.py lines 758-760: where main() goes after the credential check
AfterCredentialCheck(api_key) ==
    IF ~Truthy(api_key) THEN "done" ELSE "read_input"

\* str.lower() on one character
Lower(c) ==
    CASE c = "M" -> "m"
      [] c = "S" -> "s"
      [] c = "A" -> "a"
      [] c = "C" -> "c"
      [] OTHER -> c

\* str.replace(old, new) on one character
Replace(c, old, new) == IF c = old THEN new ELSE c

\* script.py line 770: the cleaned project name
Normalize(name) ==
    [i \in 1..Len(name) |-> Replace(Replace(Lower(name[i]), " ", "-"), "_", "-")]

\* config.project_name of the current run (script.py lines 770-777)
project_name == Normalize(args.name)

\* the directories a run can target: Path(output_dir) / project_name, line 34
Dirs == {Normalize(n) : n \in ProjectNames}

\* self.project_path, script.py line 34
project_path == project_name

(***************************************************************************)
(* The filesystem under output_dir.  A tree is absent, a plain file, or a  *)
(* directory with a set of entries; an entry is a path below the tree with *)
(* the template it was written from, the project name interpolated into    *)
(* it and the generated text it carries.                                   *)
(***************************************************************************)
Entry(path, tmpl, name, text) ==
    [path |-> path, tmpl |-> tmpl, name |-> name, text |-> text]

DirEntry(path) == Entry(path, "<dir>", <<>>, <<>>)
StaleEntry(path) == Entry(path, "<stale>", <<>>, <<>>)
\* a file that open(path, 'w') created and whose write did not complete
PartialEntry(path) == Entry(path, "<partial>", <<>>, <<>>)

Absent == [kind |-> "absent", entries |-> {}]
PlainFile == [kind |-> "file", entries |-> {}]
StaleDir ==
    [kind |-> "dir",
     entries |-> {StaleEntry("notes.txt"), DirEntry("old"), StaleEntry("package.json")}]

\* what can be at the target path before the first run
InitialTrees == {Absent, PlainFile, StaleDir}

Paths(tree) == {e.path : e \in tree.entries}

IsDir(tree, path) ==
    /\ tree.kind = "dir"
    /\ path = "." \/ DirEntry(path) \in tree.entries

\* the directory a path of the fixed set lives in
Parent(path) ==
    IF path \in {"src/app/globals.css", "src/app/layout.tsx", "src/app/page.tsx"}
    THEN "src/app"
    ELSE IF path \in {"src/app", "src/components"} THEN "src"
    ELSE "."

Put(tree, entry) ==
    [kind |-> "dir",
     entries |-> {e \in tree.entries : e.path # entry.path} \cup {entry}]

\* script.py lines 143-149
directories == <<".", "src", "src/app", "src/components", "public">>

\* the tree after directory.mkdir(parents=True, exist_ok=True) on the first k
RECURSIVE MkdirFirst(_, _)
MkdirFirst(tree, k) ==
    IF k = 0 THEN tree
    ELSE LET t == MkdirFirst(tree, k - 1)
         IN  IF directories[k] = "." THEN [t EXCEPT !.kind = "dir"]
             ELSE Put(t, DirEntry(directories[k]))

\* shutil.rmtree that leaves the tree in place
RmtreeKeepsTree(tree) == tree

\* script.py line 140: shutil.rmtree(self.project_path) when it succeeds
Rmtree(tree) == Absent

\* shutil.rmtree when it raises: on a plain file nothing is removed; in a
\* directory nothing is removed yet, or the plain files at its top are
RmtreeFailed(tree) ==
    IF tree.kind # "dir" THEN {tree}
    ELSE {tree,
          [tree EXCEPT !.entries =
              {e \in @ : e.tmpl = "<dir>" \/ Parent(e.path) # "."}]}

(***************************************************************************)
(* The contents of the files, script.py lines 161-690.                     *)
(***************************************************************************)
\* package.json carrying the name as given on the command line
package_json_raw_name == Entry("package.json", "package.json", args.name, <<>>)

\* script.py lines 164-197
package_json == Entry("package.json", "package.json", project_name, <<>>)
\* script.py lines 209-223
next_config == Entry("next.config.js", "next.config.js", <<>>, <<>>)
\* script.py lines 234-305
tailwind_config == Entry("tailwind.config.js", "tailwind.config.js", <<>>, <<>>)
\* script.py lines 316-325
postcss_config == Entry("postcss.config.js", "postcss.config.js", <<>>, <<>>)
\* script.py lines 336-371
ts_config == Entry("tsconfig.json", "tsconfig.json", <<>>, <<>>)
\* script.py lines 556-568
eslint_config == Entry(".eslintrc.json", ".eslintrc.json", <<>>, <<>>)
\* script.py lines 579-623
gitignore_content == Entry(".gitignore", ".gitignore", <<>>, <<>>)
\* script.py lines 634-684
readme_content == Entry("README.md", "README.md", project_name, <<>>)
\* script.py lines 382-495
globals_css == Entry("src/app/globals.css", "globals.css", <<>>, <<>>)

\* layout.tsx with the generated text embedded in it
layout_content_with_code ==
    Entry("src/app/layout.tsx", "layout.tsx", <<>>, generated_code)

\* script.py lines 506-532
layout_content == Entry("src/app/layout.tsx", "layout.tsx", <<>>, <<>>)
\* script.py lines 543-544
page_content == Entry("src/app/page.tsx", "page.tsx", <<>>, generated_code)

(***************************************************************************)
(* generate_website(): the pipeline, script.py lines 692-744.              *)
(***************************************************************************)
\* the pipeline with the project structure created before the code is generated
PipelineScaffoldFirst ==
    <<"rmtree", "mkdirs", "generate",
      "package.json", "next.config.js", "tailwind.config.js", "postcss.config.js",
      "tsconfig.json", ".eslintrc.json", ".gitignore", "README.md",
      "src/app/globals.css", "src/app/layout.tsx", "src/app/page.tsx">>

\* the pipeline with the page written before the layout
PipelinePageBeforeLayout ==
    <<"generate", "rmtree", "mkdirs",
      "package.json", "next.config.js", "tailwind.config.js", "postcss.config.js",
      "tsconfig.json", ".eslintrc.json", ".gitignore", "README.md",
      "src/app/globals.css", "src/app/page.tsx", "src/app/layout.tsx">>

\* script.py lines 699-730: the order of the steps
Pipeline ==
    <<"generate", "rmtree", "mkdirs",
      "package.json", "next.config.js", "tailwind.config.js", "postcss.config.js",
      "tsconfig.json", ".eslintrc.json", ".gitignore", "README.md",
      "src/app/globals.css", "src/app/layout.tsx", "src/app/page.tsx">>

\* the steps with every `if not ...: return False` dropped
AfterStepIgnoringFailure(ok, i) ==
    IF i = Len(Pipeline)
    THEN [pc |-> "banner", step |-> 0, success |-> "True"]
    ELSE [pc |-> "generate_website", step |-> i + 1, success |-> "none"]

\* script.py lines 702-744: where generate_website() goes after step i
AfterStep(ok, i) ==
    IF ~ok
    THEN [pc |-> "banner", step |-> 0, success |-> "False"]
    ELSE IF i = Len(Pipeline)
    THEN [pc |-> "banner", step |-> 0, success |-> "True"]
    ELSE [pc |-> "generate_website", step |-> i + 1, success |-> "none"]

AtStep(name) ==
    /\ pc = "generate_website"
    /\ step \in 1..Len(Pipeline)
    /\ Pipeline[step] = name

Finish(ok, name) ==
    LET n == AfterStep(ok, step)
    IN  /\ pc' = n.pc
        /\ step' = n.step
        /\ success' = n.success
        /\ failedAt' = IF ok \/ failedAt # "none" THEN failedAt ELSE name

(***************************************************************************)
(* The completion service.                                                 *)
(***************************************************************************)
NoResponse == [kind |-> "none", text |-> <<>>]

TextResponse(t) == [kind |-> "text", text |-> t]

\* completion texts the service is seen to return in a run of main()
SampleTexts ==
    {<<>>,
     <<SP, NL>>,
     <<"x">>,
     <<FENCE, NL, ClientDirective, "useState", NL, FENCE>>}

\* outcomes of self.client.chat.completions.create(...) and of reading
\* response.choices[0].message.content, script.py lines 98-110
Responses ==
    {[kind |-> "network_error", text |-> <<>>],
     [kind |-> "status_error", text |-> <<>>],
     [kind |-> "content_is_None", text |-> <<>>]}
    \cup {TextResponse(t) : t \in SampleTexts}

NoPrev == [valid |-> FALSE, name |-> <<>>, raw |-> <<>>, input |-> "",
           tree |-> Absent, code |-> <<>>]

(***************************************************************************)
(* The state after construction.                                           *)
(***************************************************************************)
Init ==
    /\ pc = "credential"
    /\ step = 0
    /\ success = "none"
    /\ args \in ArgSets
    /\ fs \in [Dirs -> InitialTrees]
    /\ fs0 = fs
    /\ ops = <<>>
    /\ generated_code = <<>>
    /\ response = NoResponse
    /\ printed = <<>>
    /\ failedAt = "none"
    /\ run = "first"
    /\ prev = NoPrev
    /\ cleaned = <<>>
    /\ recleaned = <<>>

(***************************************************************************)
(* main(), script.py lines 746-792.                                        *)
(***************************************************************************)
\* script.py lines 756-760
CheckCredential ==
    /\ pc = "credential"
    /\ LET api_key == ApiKey(args.flag, args.env)
       IN  /\ pc' = AfterCredentialCheck(api_key)
           /\ printed' = IF ~Truthy(api_key)
                         THEN Append(printed, "error: API key is required")
                         ELSE printed
    /\ UNCHANGED <<step, success, args, fs, fs0, ops, generated_code, response,
                   failedAt, run, prev, cleaned, recleaned>>

\* script.py lines 762-767: open() and read() are not inside any try
ReadInput ==
    /\ pc = "read_input"
    /\ \/ /\ pc' = "construct"
          /\ printed' = printed
       \/ /\ args.input.isFile
          /\ pc' = "crashed"
          /\ printed' = Append(printed, "traceback")
    /\ UNCHANGED <<step, success, args, fs, fs0, ops, generated_code, response,
                   failedAt, run, prev, cleaned, recleaned>>

\* script.py lines 769-780 and 31-34: OpenAI(...) is not inside any try
Construct ==
    /\ pc = "construct"
    /\ \/ /\ pc' = "generate_website"
          /\ step' = 1
          /\ printed' = printed
       \/ /\ pc' = "crashed"
          /\ step' = step
          /\ printed' = Append(printed, "traceback")
    /\ UNCHANGED <<success, args, fs, fs0, ops, generated_code, response,
                   failedAt, run, prev, cleaned, recleaned>>

\* the banner when the return value is not looked at
BannerAlwaysSuccess(ok) == "success banner"

\* script.py lines 783-792
BannerFor(ok) == IF ok = "True" THEN "success banner" ELSE "failure banner"

PrintBanner ==
    /\ pc = "banner"
    /\ printed' = Append(printed, BannerFor(success))
    /\ pc' = "done"
    /\ UNCHANGED <<step, success, args, fs, fs0, ops, generated_code, response,
                   failedAt, run, prev, cleaned, recleaned>>

(***************************************************************************)
(* The steps of generate_website().                                        *)
(***************************************************************************)
\* script.py lines 699 and 95-130; the except of lines 742-744 on a raise
Generate ==
    /\ AtStep("generate")
    /\ ops' = Append(ops, "request")
    /\ \E r \in Responses :
         /\ response' = r
         /\ IF r.kind = "text"
            THEN /\ generated_code' = PostProcess(r.text)
                 /\ cleaned' = CleanUp(r.text)
                 /\ recleaned' = CleanUp(CleanUp(r.text))
                 /\ Finish(TRUE, "generate")
            ELSE /\ pc' = "banner"
                 /\ step' = 0
                 /\ success' = "False"
                 /\ failedAt' = "generate"
                 /\ UNCHANGED <<generated_code, cleaned, recleaned>>
    /\ UNCHANGED <<args, fs, fs0, printed, run, prev>>

\* script.py lines 137-140 (and 157-159 when rmtree raises)
RemoveExisting ==
    /\ AtStep("rmtree")
    /\ LET tree == fs[project_path]
       IN  IF tree.kind = "absent"
           THEN /\ UNCHANGED <<fs, ops>>
                /\ Finish(TRUE, "rmtree")
           ELSE /\ ops' = Append(ops, "rmtree")
                /\ \/ /\ tree.kind = "dir"
                      /\ fs' = [fs EXCEPT ![project_path] = Rmtree(tree)]
                      /\ Finish(TRUE, "rmtree")
                   \/ /\ \E t \in RmtreeFailed(tree) :
                            fs' = [fs EXCEPT ![project_path] = t]
                      /\ Finish(FALSE, "rmtree")
    /\ UNCHANGED <<args, fs0, generated_code, response, printed, run, prev,
                   cleaned, recleaned>>

\* script.py lines 142-159
MakeDirectories ==
    /\ AtStep("mkdirs")
    /\ ops' = Append(ops, "mkdirs")
    /\ LET tree == fs[project_path]
       IN  \E k \in 0..Len(directories) :
             /\ tree.kind = "file" => k = 0
             /\ fs' = [fs EXCEPT ![project_path] = MkdirFirst(tree, k)]
             /\ Finish(k = Len(directories), "mkdirs")
    /\ UNCHANGED <<args, fs0, generated_code, response, printed, run, prev,
                   cleaned, recleaned>>

\* with open(self.project_path / path, 'w') as f: f.write(...) / json.dump(...)
WriteFile(entry) ==
    /\ AtStep(entry.path)
    /\ ops' = Append(ops, entry.path)
    /\ LET tree == fs[project_path]
       IN  \/ /\ IsDir(tree, Parent(entry.path))
              /\ ~IsDir(tree, entry.path)
              /\ fs' = [fs EXCEPT ![project_path] = Put(tree, entry)]
              /\ Finish(TRUE, entry.path)
           \/ /\ IsDir(tree, Parent(entry.path))
              /\ ~IsDir(tree, entry.path)
              /\ fs' = [fs EXCEPT ![project_path] = Put(tree, PartialEntry(entry.path))]
              /\ Finish(FALSE, entry.path)
           \/ /\ fs' = fs
              /\ Finish(FALSE, entry.path)
    /\ UNCHANGED <<args, fs0, generated_code, response, printed, run, prev,
                   cleaned, recleaned>>

create_package_json == WriteFile(package_json)
create_next_config == WriteFile(next_config)
create_tailwind_config == WriteFile(tailwind_config)
create_postcss_config == WriteFile(postcss_config)
create_typescript_config == WriteFile(ts_config)
create_eslint_config == WriteFile(eslint_config)
create_gitignore == WriteFile(gitignore_content)
create_readme == WriteFile(readme_content)
create_globals_css == WriteFile(globals_css)
create_layout_file == WriteFile(layout_content)
create_page_file == WriteFile(page_content)

(***************************************************************************)
(* The program is run once more on the filesystem the first run left.      *)
(***************************************************************************)
NextRun ==
    /\ pc \in {"done", "crashed"}
    /\ run = "first"
    /\ run' = "second"
    /\ args' \in ArgSets
    /\ prev' = IF success = "True"
               THEN [valid |-> TRUE, name |-> project_name, raw |-> args.name,
                     input |-> args.input.text, tree |-> fs[project_path],
                     code |-> generated_code]
               ELSE prev
    /\ pc' = "credential"
    /\ step' = 0
    /\ success' = "none"
    /\ fs0' = fs
    /\ ops' = <<>>
    /\ generated_code' = <<>>
    /\ response' = NoResponse
    /\ printed' = <<>>
    /\ failedAt' = "none"
    /\ cleaned' = <<>>
    /\ recleaned' = <<>>
    /\ UNCHANGED fs

Next ==
    \/ CheckCredential
    \/ ReadInput
    \/ Construct
    \/ Generate
    \/ RemoveExisting
    \/ MakeDirectories
    \/ create_package_json
    \/ create_next_config
    \/ create_tailwind_config
    \/ create_postcss_config
    \/ create_typescript_config
    \/ create_eslint_config
    \/ create_gitignore
    \/ create_readme
    \/ create_globals_css
    \/ create_layout_file
    \/ create_page_file
    \/ PrintBanner
    \/ NextRun

Spec == Init /\ [][Next]_vars

(***************************************************************************)
(* generate_website_code() applied to every completion text of bounded     *)
(* length.                                                                 *)
(***************************************************************************)
InitText ==
    /\ pc = "generate_website"
    /\ step = 1
    /\ success = "none"
    /\ args = [flag |-> "sk-key", env |-> None, name |-> <<"c">>,
               input |-> [isFile |-> FALSE, text |-> "a blog"]]
    /\ fs = [d \in Dirs |-> Absent]
    /\ fs0 = fs
    /\ ops = <<>>
    /\ generated_code = <<>>
    /\ response \in {TextResponse(t) : t \in Texts}
    /\ printed = <<>>
    /\ failedAt = "none"
    /\ run = "first"
    /\ prev = NoPrev
    /\ cleaned = <<>>
    /\ recleaned = <<>>

\* script.py lines 110-126 on the completion text the service returned
generate_website_code ==
    /\ AtStep("generate")
    /\ ops = <<>>
    /\ response.kind = "text"
    /\ ops' = Append(ops, "request")
    /\ generated_code' = PostProcess(response.text)
    /\ cleaned' = CleanUp(response.text)
    /\ recleaned' = CleanUp(CleanUp(response.text))
    /\ Finish(TRUE, "generate")
    /\ UNCHANGED <<args, fs, fs0, response, printed, run, prev>>

NextText == generate_website_code

SpecText == InitText /\ [][NextText]_vars

(***************************************************************************)
(* The project-name cleaning of main() applied to every --project-name of  *)
(* bounded length.                                                         *)
(***************************************************************************)
\* the characters a --project-name is drawn from
NameChars == {"M", "m", " ", "_", "-", "/", "."}

Names == SeqsUpTo(NameChars, MaxNameLen)

InitName ==
    /\ pc = "construct"
    /\ step = 0
    /\ success = "none"
    /\ args \in [flag : {"sk-key"}, env : {None}, name : Names,
                 input : {[isFile |-> FALSE, text |-> "a blog"]}]
    /\ fs = [d \in Dirs |-> Absent]
    /\ fs0 = fs
    /\ ops = <<>>
    /\ generated_code = <<>>
    /\ response = NoResponse
    /\ printed = <<>>
    /\ failedAt = "none"
    /\ run = "first"
    /\ prev = NoPrev
    /\ cleaned = <<>>
    /\ recleaned = <<>>

NextName == Construct

SpecName == InitName /\ [][NextName]_vars

(***************************************************************************)
(* Properties.                                                             *)
(***************************************************************************)
target == fs[project_path]

\* the completion call has returned a text and it has been post-processed
Generated == response.kind = "text" /\ ops # <<>>

RunEnded == pc \in {"done", "crashed"}

FixedDirs == {"src", "src/app", "src/components", "public"}

StaticFiles ==
    {"package.json", "next.config.js", "tailwind.config.js", "postcss.config.js",
     "tsconfig.json", ".eslintrc.json", ".gitignore", "README.md",
     "src/app/globals.css", "src/app/layout.tsx"}

PagePath == "src/app/page.tsx"

EntriesAt(tree, paths) == {e \in tree.entries : e.path \in paths}

MissingCredential == args.flag = None /\ args.env = None

\* C1: with no --api-key flag and no OPENAI_API_KEY variable the run ends at
\* the credential check: in every state of the run no request has been issued,
\* no filesystem operation has been performed and the filesystem is as it was.
C1_NoSideEffects ==
    MissingCredential =>
        /\ ops = <<>>
        /\ fs = fs0
        /\ pc \in {"credential", "done"}
        /\ success = "none"

C1_Witness ==
    /\ MissingCredential
    /\ pc = "done"
    /\ fs[project_path] = StaleDir

\* C2: when generate_website_code fails, generate_website returns False and
\* the only side effect of the run is the request: nothing was deleted,
\* created or written, the filesystem is exactly as it was before the run.
C2_GenerationErrorBeforeMutation ==
    failedAt = "generate" =>
        /\ success = "False"
        /\ ops = <<"request">>
        /\ fs = fs0

C2_Witness ==
    /\ failedAt = "generate"
    /\ pc = "done"
    /\ fs0[project_path] = StaleDir

EmptyContent(r) == r.kind = "text" /\ Strip(r.text) = <<>>

\* C3: generate_website_code fails, so that the run reports failure and writes
\* no page file, when the call fails, when the service answers with a
\* non-success status, and when the completion text is empty or blank.
C3_FailsOnBadResponse ==
    (\/ response.kind \in {"network_error", "status_error"}
     \/ EmptyContent(response) /\ ops # <<>>)
    => /\ failedAt = "generate"
       /\ success = "False"

\* the order of the materialization steps as the claim states it
MaterializationOrder ==
    <<"rmtree", "mkdirs",
      "package.json", "next.config.js", "tailwind.config.js", "postcss.config.js",
      "tsconfig.json", ".eslintrc.json", ".gitignore", "README.md",
      "src/app/globals.css", "src/app/layout.tsx", "src/app/page.tsx">>

IndexIn(seq, x) == CHOOSE i \in 1..Len(seq) : seq[i] = x

\* the filesystem operations of the first i materialization steps: the
\* delete is performed only if the target existed when the run started
OpsOfFirst(i) ==
    LET IsPerformed(x) == x # "rmtree" \/ fs0[project_path].kind # "absent"
    IN  SelectSeq(SubSeq(MaterializationOrder, 1, i), IsPerformed)

\* what a completed step leaves at its path
WrittenBy(path) ==
    CASE path = "package.json" -> package_json
      [] path = "next.config.js" -> next_config
      [] path = "tailwind.config.js" -> tailwind_config
      [] path = "postcss.config.js" -> postcss_config
      [] path = "tsconfig.json" -> ts_config
      [] path = ".eslintrc.json" -> eslint_config
      [] path = ".gitignore" -> gitignore_content
      [] path = "README.md" -> readme_content
      [] path = "src/app/globals.css" -> globals_css
      [] path = "src/app/layout.tsx" -> layout_content
      [] path = "src/app/page.tsx" -> page_content

\* C4: materialization is fail-fast in the stated order: once step k has
\* failed, generate_website has returned False, the operations performed are
\* exactly those of the steps up to k, and what the steps before k created
\* (the directories, every file in full) is on disk.
C4_FailFastNoRollback ==
    (failedAt # "none" /\ failedAt # "generate") =>
        LET k == IndexIn(MaterializationOrder, failedAt)
        IN  /\ success = "False"
            /\ pc \in {"banner", "done"}
            /\ ops = <<"request">> \o OpsOfFirst(k)
            /\ k > 2 => /\ target.kind = "dir"
                        /\ \A d \in FixedDirs : DirEntry(d) \in target.entries
            /\ \A j \in 3..(k - 1) :
                   WrittenBy(MaterializationOrder[j]) \in target.entries
            /\ k > 1 => \A j \in (k + 1)..Len(MaterializationOrder) :
                            MaterializationOrder[j] \notin Paths(target)

C4_Witness ==
    /\ failedAt = "README.md"
    /\ pc = "done"
    /\ PartialEntry("README.md") \in target.entries
    /\ fs0[project_path] = StaleDir

\* the fixed set of the project tree
CompleteTree(tree) ==
    /\ tree.kind = "dir"
    /\ Paths(tree) = FixedDirs \cup StaticFiles \cup {PagePath}
    /\ \A d \in FixedDirs : DirEntry(d) \in tree.entries
    /\ \A e \in tree.entries : e.tmpl \notin {"<stale>", "<partial>"}

\* C5: after every run for which generate_website returned True the target
\* holds exactly the four directories and eleven files of the fixed set, and
\* nothing of what was there before.
C5_OnlyFixedSetAfterSuccess ==
    success = "True" => CompleteTree(target)

C5_Witness ==
    /\ success = "True"
    /\ pc = "done"
    /\ fs0[project_path] = StaleDir

\* a second successful run against the directory of the successful first run
SecondSuccess == run = "second" /\ success = "True" /\ prev.valid

\* C6: two successful materializations one after the other against the same
\* output_dir and project_name leave the same static files with the same
\* contents, whatever generated text each run received.
C6_IdempotentRescaffold ==
    (SecondSuccess /\ prev.name = project_name) =>
        EntriesAt(target, StaticFiles) = EntriesAt(prev.tree, StaticFiles)

C6_Witness ==
    /\ SecondSuccess
    /\ prev.name = project_name
    /\ prev.raw # args.name
    /\ prev.code # generated_code
    /\ prev.input # args.input.text

\* C7 as stated: two successful runs that differ in their user-supplied input
\* leave byte-identical contents in every file other than src/app/page.tsx.
C7_StaticIndependentOfInput ==
    SecondSuccess =>
        EntriesAt(target, StaticFiles) = EntriesAt(prev.tree, StaticFiles)

NamedFiles == {"package.json", "README.md"}

\* C7 amended: the generated text is in src/app/page.tsx and in no other
\* file; no file but package.json and README.md carries the project name, and
\* these carry the normalized one; so two successful runs agree on every file
\* other than page.tsx, package.json and README.md, and on these two exactly
\* when their normalized project names agree.
C7_StaticUpToProjectName ==
    /\ success = "True" =>
           /\ page_content \in target.entries
           /\ \A e \in target.entries :
                  /\ e.path # PagePath => e.text = <<>>
                  /\ e.path \in NamedFiles => e.name = project_name
                  /\ e.path \notin NamedFiles => e.name = <<>>
    /\ SecondSuccess =>
           /\ EntriesAt(target, StaticFiles \ NamedFiles)
                  = EntriesAt(prev.tree, StaticFiles \ NamedFiles)
           /\ (prev.name = project_name) <=>
                  EntriesAt(target, NamedFiles) = EntriesAt(prev.tree, NamedFiles)

C7_Witness ==
    /\ SecondSuccess
    /\ prev.name # project_name
    /\ prev.input # args.input.text
    /\ generated_code # <<>>
    /\ prev.code # generated_code

\* the directive line, exactly one empty line, then a line that is not empty
DirectiveThenOneBlankLine(code) ==
    /\ Len(code) > Len(DirectivePrefix)
    /\ SubSeq(code, 1, Len(DirectivePrefix)) = DirectivePrefix
    /\ code[Len(DirectivePrefix) + 1] # NL

\* C8 as stated: a raw output that contains useState and does not start with
\* the client directive is returned starting with the directive line followed
\* by exactly one blank line.
C8_DirectiveForRawUseState ==
    (/\ Generated
     /\ Contains(response.text, {"useState"})
     /\ ~StartsWith(response.text, ClientDirective))
    => DirectiveThenOneBlankLine(generated_code)

\* C8 amended: when the trimmed and fence-stripped output contains useState
\* and does not start with the client directive, the returned text is the
\* directive line and one empty line followed by that trimmed and
\* fence-stripped output, unchanged.
C8_DirectiveForCleanedUseState ==
    (/\ Generated
     /\ Contains(CleanUp(response.text), {"useState"})
     /\ ~StartsWith(CleanUp(response.text), ClientDirective))
    => /\ generated_code = <<ClientDirective, SEMI, NL, NL>> \o CleanUp(response.text)
       /\ ~StartsWith(CleanUp(response.text), NL)
              => DirectiveThenOneBlankLine(generated_code)

C8_Witness ==
    /\ Generated
    /\ StartsWith(response.text, FENCE)
    /\ Contains(cleaned, {"useState"})
    /\ Contains(cleaned, {ClientDirective})
    /\ ~StartsWith(cleaned, ClientDirective)
    /\ DirectiveThenOneBlankLine(generated_code)

\* C9: trimming and fence-stripping is idempotent: applied to its own output
\* it returns that output, also for nested fences and for whitespace directly
\* inside the fences.
C9_CleanUpIdempotent ==
    Generated => recleaned = cleaned

Banners == {"success banner", "failure banner"}

PrintedBanners == SelectSeq(printed, LAMBDA line : line \in Banners)

\* C10 as stated: every run ends with exactly one banner, the success banner
\* if and only if generation and every step succeeded, the failure banner on
\* any error, a missing credential included.
C10_OneBannerPerRun ==
    RunEnded =>
        \/ PrintedBanners = <<"success banner">> /\ success = "True"
        \/ PrintedBanners = <<"failure banner">> /\ success # "True"

\* C10 amended: a run prints at most one banner: the success banner if and
\* only if generate_website returned True, which it does only when generation
\* and every step succeeded; the failure banner if and only if
\* generate_website returned False; no banner when the run ends before
\* generate_website is called, where a missing credential leaves only the
\* logged error.
C10_BannerFollowsReturnValue ==
    /\ Len(PrintedBanners) <= 1
    /\ success = "True" =>
           /\ failedAt = "none"
           /\ ops = <<"request">> \o OpsOfFirst(Len(MaterializationOrder))
    /\ RunEnded =>
           /\ success = "True" <=> PrintedBanners = <<"success banner">>
           /\ success = "False" <=> PrintedBanners = <<"failure banner">>
           /\ success = "False" <=> failedAt # "none"
           /\ ~Truthy(ApiKey(args.flag, args.env)) =>
                  /\ printed = <<"error: API key is required">>
                  /\ pc = "done"

C10_Witness ==
    /\ pc = "done"
    /\ ~Truthy(ApiKey(args.flag, args.env))
    /\ printed = <<"error: API key is required">>
    /\ target = StaleDir

\* C11: no failure escapes as an unhandled exception: whatever fails after
\* argument parsing (reading the input file, constructing the generator and
\* its client, the completion call, the post-processing, a filesystem step) is
\* caught and turned into the failure signal, so a run never is in a crash
\* state and a run that has ended has ended normally.
C11_NoUnhandledException ==
    /\ pc # "crashed"
    /\ "traceback" \notin {printed[i] : i \in 1..Len(printed)}

UpperCase == {"M", "S", "A", "C"}

\* a single path component that names a directory below output_dir
SafeComponent(name) ==
    /\ name # <<>>
    /\ name \notin {<<".">>, <<".", ".">>}
    /\ \A i \in 1..Len(name) : name[i] # "/"

MyCoolSite == <<"M", "y", " ", "C", "o", "o", "l", " ", "S", "i", "t", "e">>

\* C12: the cleaned project name the configuration is built with has no
\* uppercase letter, no space and no underscore, cleaning it again changes
\* nothing, "My Cool Site" is cleaned to "my-cool-site", and the cleaned name
\* is a filesystem-safe single path component.
C12_NormalizedNameSafe ==
    pc = "generate_website" =>
        /\ \A i \in 1..Len(project_name) :
               project_name[i] \notin UpperCase \cup {" ", "_"}
        /\ Normalize(project_name) = project_name
        /\ Normalize(MyCoolSite)
               = <<"m", "y", "-", "c", "o", "o", "l", "-", "s", "i", "t", "e">>
        /\ SafeComponent(project_name)

\* the part of C12 that the cleaning does establish
C12_LowerCaseHyphenated ==
    pc = "generate_website" =>
        /\ \A i \in 1..Len(project_name) :
               project_name[i] \notin UpperCase \cup {" ", "_"}
        /\ Normalize(project_name) = project_name
        /\ Len(project_name) = Len(args.name)

\* the delete-then-recreate step of the current run has succeeded
StructureDone ==
    /\ \E i \in 1..Len(ops) : ops[i] = "mkdirs"
    /\ failedAt \notin {"rmtree", "mkdirs"}

\* C13: page.tsx is the last write: in every state of a run after its
\* delete-then-recreate step has succeeded, if src/app/page.tsx exists in the
\* target then the four subdirectories exist and the ten other files of the
\* fixed set exist as their steps wrote them; and generate_website returns
\* True only in a state where page.tsx exists with the generated text.
C13_PageImpliesCompleteTree ==
    /\ (StructureDone /\ PagePath \in Paths(target)) =>
           /\ target.kind = "dir"
           /\ \A d \in FixedDirs : DirEntry(d) \in target.entries
           /\ \A f \in StaticFiles : WrittenBy(f) \in target.entries
           /\ Paths(target) = FixedDirs \cup StaticFiles \cup {PagePath}
    /\ success = "True" =>
           /\ StructureDone
           /\ page_content \in target.entries

C13_Witness ==
    /\ StructureDone
    /\ failedAt = PagePath
    /\ success = "False"
    /\ PartialEntry(PagePath) \in target.entries
    /\ fs0[project_path] = StaleDir

====
